---- MODULE Spec2Model ----
(***************************************************************************)
(* Model of Mindbotz/Team_Zephyra/Team_Zephyra.py: the shared UserData     *)
(* record, the four personas (Zephyra, Aria, Phoenix, Solace), the handoff *)
(* (_transfer_to_agent), the chat-context truncation (_truncate_chat_ctx)  *)
(* and the entry hook (on_enter).                                          *)
(*                                                                         *)
(* Four specifications:                                                    *)
(*   Spec          the conversation session started by entrypoint          *)
(*   SpecTransfer  _transfer_to_agent called on any session record/name    *)
(*   SpecTruncate  _truncate_chat_ctx called on any bounded history        *)
(*   SpecMerge     BaseAgent.on_enter run repeatedly on one source history *)
(***************************************************************************)
EXTENDS Integers, Sequences, FiniteSets, TLC

VARIABLES
    customer_name,          \* UserData.customer_name      (Optional[str])
    customer_phone,         \* UserData.customer_phone     (Optional[str])
    resume_skills,          \* UserData.resume_skills      (Optional[list[str]])
    resume_experience,      \* UserData.resume_experience  (Optional[list[str]])
    prev_agent,             \* UserData.prev_agent         (Optional[Agent])
    current_agent,          \* session.current_agent
    chat_ctx,               \* agent instance -> its chat_ctx.items
    next_id,                \* next fresh ChatItem id
    trace,                  \* the personas that have been active, in order
    pc,                     \* position of the session / of the call under test
    ret,                    \* value returned by the last tool call
    name,                   \* argument of _transfer_to_agent (SpecTransfer)
    items,                  \* argument of _truncate_chat_ctx (SpecTruncate)
    keep_last_n_messages,   \* argument of _truncate_chat_ctx
    keep_system_message,    \* argument of _truncate_chat_ctx
    keep_function_call,     \* argument of _truncate_chat_ctx
    new_items,              \* list returned by _truncate_chat_ctx
    runs                    \* number of on_enter runs done (SpecMerge)

userdata_vars == <<customer_name, customer_phone, resume_skills, resume_experience>>
session_vars  == <<prev_agent, current_agent, chat_ctx, next_id, trace, ret>>
call_vars     == <<name, items, keep_last_n_messages, keep_system_message,
                   keep_function_call, new_items, runs>>
vars == <<userdata_vars, session_vars, call_vars, pc>>

----------------------------------------------------------------------------
(* Bounds *)

MaxLen == 4        \* longest history given to _truncate_chat_ctx
MaxKeep == 4       \* largest keep_last_n_messages given to _truncate_chat_ctx
MaxItemId == 5     \* conversation items the runtime adds in one session
MaxSrc == 7        \* longest source history of the on_enter merge
MaxRuns == 2       \* on_enter runs on the same source history

----------------------------------------------------------------------------
(* Values *)

\* Optional[T]: None, or a value
NoneStr  == [some |-> FALSE, val |-> ""]
NoneList == [some |-> FALSE, val |-> <<>>]
Some(v)  == [some |-> TRUE, val |-> v]

\* Python's `x or default` on an Optional[str] / Optional[list]
OrStr(x, default)  == IF x.some /\ x.val # "" THEN x.val ELSE default
OrList(x, default) == IF x.some /\ x.val # <<>> THEN x.val ELSE default

\* An Agent instance: its class and which construction of that class it is
Obj(cls, n) == [cls |-> cls, inst |-> n]
NoAgent == Obj("None", 0)

\* content of a ChatItem that is not a summary message
NoContent == [agent_name |-> "", customer_name |-> "", customer_phone |-> "",
              skills |-> <<>>, experience |-> <<>>]

\* llm.ChatItem: id, type, role (messages only), content
Item(id, kind) == [id |-> id, type |-> kind.type, role |-> kind.role,
                   content |-> NoContent]

SystemMessage   == [type |-> "message", role |-> "system"]
UserMessage     == [type |-> "message", role |-> "user"]
AssistantMessage == [type |-> "message", role |-> "assistant"]
FunctionCall    == [type |-> "function_call", role |-> "none"]
FunctionCallOutput == [type |-> "function_call_output", role |-> "none"]

ItemKinds == {SystemMessage, UserMessage, AssistantMessage, FunctionCall,
              FunctionCallOutput}

FunctionCallTypes == {"function_call", "function_call_output"}

\* the histories of at most n items over the given kinds; ids are unique
\* and chronological
Histories(kinds, n) ==
    UNION { { [i \in 1..m |-> Item(i, f[i])] : f \in [1..m -> kinds] } : m \in 0..n }

----------------------------------------------------------------------------
(* BaseAgent._truncate_chat_ctx *)

\* keep_last_n_messages: int = 6
DefaultKeepLastN == 6

Reverse(s) == [i \in 1..Len(s) |-> s[Len(s) + 1 - i]]

valid_item_swapped(item, keep_system, keep_call) ==
    /\ ~(keep_system /\ item.type = "message" /\ item.role = "system")
    /\ ~(keep_call /\ item.type \in FunctionCallTypes)

\* _valid_item (closure over keep_system_message, keep_function_call)
valid_item(item, keep_system, keep_call) ==
    IF ~keep_system /\ item.type = "message" /\ item.role = "system" THEN FALSE
    ELSE IF ~keep_call /\ item.type \in FunctionCallTypes THEN FALSE
    ELSE TRUE

\* the scan when every scanned item counts against the limit
RECURSIVE scan_raw(_, _, _, _, _, _, _)
scan_raw(its, i, seen, acc, keep_n, keep_system, keep_call) ==
    IF i = 0 THEN acc
    ELSE LET acc2 == IF valid_item(its[i], keep_system, keep_call)
                     THEN Append(acc, its[i]) ELSE acc
         IN  IF seen + 1 >= keep_n THEN acc2
             ELSE scan_raw(its, i - 1, seen + 1, acc2, keep_n, keep_system, keep_call)

scan_counting_all(its, i, acc, keep_n, keep_system, keep_call) ==
    scan_raw(its, i, 0, acc, keep_n, keep_system, keep_call)

\* for item in reversed(items): append when valid; break once
\* len(new_items) >= keep_last_n_messages.  i is the index about to be read,
\* acc the new_items collected so far (most recent first).
RECURSIVE scan(_, _, _, _, _, _)
scan(its, i, acc, keep_n, keep_system, keep_call) ==
    IF i = 0 THEN acc
    ELSE LET acc2 == IF valid_item(its[i], keep_system, keep_call)
                     THEN Append(acc, its[i]) ELSE acc
         IN  IF Len(acc2) >= keep_n THEN acc2
             ELSE scan(its, i - 1, acc2, keep_n, keep_system, keep_call)

pop_leading_once(s) ==
    IF s # <<>> /\ s[1].type \in FunctionCallTypes THEN Tail(s) ELSE s

\* while new_items and new_items[0].type in [...]: new_items.pop(0)
RECURSIVE pop_leading(_)
pop_leading(s) ==
    IF s # <<>> /\ s[1].type \in FunctionCallTypes THEN pop_leading(Tail(s)) ELSE s

truncate_unreversed(its, keep_n, keep_system, keep_call) ==
    [items |-> its,
     ret   |-> pop_leading(scan(its, Len(its), <<>>, keep_n, keep_system, keep_call))]

\* _truncate_chat_ctx: the list returned (ret) and the caller's list after
\* the call (items)
truncate_chat_ctx(its, keep_n, keep_system, keep_call) ==
    [items |-> its,
     ret   |-> pop_leading(Reverse(scan(its, Len(its), <<>>, keep_n,
                                        keep_system, keep_call)))]

----------------------------------------------------------------------------
(* entrypoint: the persona registry and the agent the session starts with *)

\* userdata.agents.update({...}): one instance of each persona class
agents ==
    ("zephyra" :> Obj("Zephyra", 1)) @@ ("aria" :> Obj("Aria", 1)) @@
    ("phoenix" :> Obj("Phoenix", 1)) @@ ("solace" :> Obj("Solace", 1))

Registered == {agents[n] : n \in DOMAIN agents}

start_agent_unregistered == Obj("Zephyra", 2)

\* agent.start(agent=userdata.agents["zephyra"], ...)
start_agent == agents["zephyra"]

\* every Agent instance alive in the session
Instances == Registered \cup {start_agent}

\* llm_model = self.llm or self.session.llm: openai.LLM for every persona,
\* never an llm.RealtimeModel
is_realtime_model(self) == FALSE

----------------------------------------------------------------------------
(* Tools *)

\* str.capitalize() on the names the tools pass
Capitalize(nm) ==
    CASE nm = "zephyra" -> "Zephyra"
      [] nm = "aria"    -> "Aria"
      [] nm = "phoenix" -> "Phoenix"
      [] nm = "solace"  -> "Solace"
      [] OTHER          -> nm

NoReturn == [agent |-> NoAgent, message |-> <<>>]

transfer_records_target(nm, prev, current) ==
    IF nm \notin DOMAIN agents
    THEN [raised |-> "KeyError", prev_agent |-> prev, ret |-> NoReturn]
    ELSE [raised |-> "", prev_agent |-> agents[nm],
          ret |-> [agent |-> agents[nm],
                   message |-> <<"Hang on-transferring you to ", Capitalize(nm), " now.">>]]

transfer_assigns_before_lookup(nm, prev, current) ==
    IF nm \notin DOMAIN agents
    THEN [raised |-> "KeyError", prev_agent |-> current, ret |-> NoReturn]
    ELSE [raised |-> "", prev_agent |-> current,
          ret |-> [agent |-> agents[nm],
                   message |-> <<"Hang on-transferring you to ", Capitalize(nm), " now.">>]]

\* BaseAgent._transfer_to_agent(name, context), with prev = userdata.prev_agent
\* and current = context.session.current_agent on entry: whether the lookup
\* userdata.agents[name] raised, userdata.prev_agent on exit, the value returned
transfer_to_agent(nm, prev, current) ==
    IF nm \notin DOMAIN agents
    THEN [raised |-> "KeyError", prev_agent |-> prev, ret |-> NoReturn]
    ELSE [raised |-> "", prev_agent |-> current,
          ret |-> [agent |-> agents[nm],
                   message |-> <<"Hang on-transferring you to ", Capitalize(nm), " now.">>]]

handoff_tools_with_router(cls) ==
    CASE cls = "Zephyra" -> {"aria", "phoenix", "solace"}
      [] cls = "Aria"    -> {"phoenix", "zephyra"}
      [] OTHER           -> {"zephyra"}

\* the handoff tools of each persona class, by the name they transfer to:
\* Zephyra.to_aria / to_phoenix / to_solace, Aria's tools=[..., to_phoenix]
handoff_tools(cls) ==
    CASE cls = "Zephyra" -> {"aria", "phoenix", "solace"}
      [] cls = "Aria"    -> {"phoenix"}
      [] OTHER           -> {}

\* the data-update tools of each persona class: Aria's tools=[update_name,
\* update_phone, ...] and its methods update_skills, update_experience
update_tools(cls) ==
    IF cls = "Aria"
    THEN {"update_name", "update_phone", "update_skills", "update_experience"}
    ELSE {}

\* values the language model passes to the data-update tools
NameInputs == {"Ann"}
PhoneInputs == {"555"}
SkillInputs == {<<"python">>}
ExperienceInputs == {<<"cook">>}

----------------------------------------------------------------------------
(* UserData.summarize and the entry hooks *)

\* UserData.summarize(): the dict that is dumped
summarize ==
    [customer_name  |-> OrStr(customer_name, "unknown"),
     customer_phone |-> OrStr(customer_phone, "unknown"),
     skills         |-> OrList(resume_skills, <<>>),
     experience     |-> OrList(resume_experience, <<>>)]

merge_history_no_dedup(self, own) ==
    IF prev_agent # NoAgent /\ ~is_realtime_model(self)
    THEN own \o truncate_chat_ctx(chat_ctx[prev_agent], DefaultKeepLastN,
                                  FALSE, TRUE).ret
    ELSE own

\* BaseAgent.on_enter, the merge: truncate the previous agent's items, drop
\* those whose id the agent's own chat_ctx holds, extend with the rest
merge_history(self, own) ==
    IF prev_agent # NoAgent /\ ~is_realtime_model(self)
    THEN LET items_copy == truncate_chat_ctx(chat_ctx[prev_agent],
                                             DefaultKeepLastN, FALSE, TRUE).ret
             existing_ids == {own[i].id : i \in 1..Len(own)}
             NotExisting(item) == item.id \notin existing_ids
         IN  own \o SelectSeq(items_copy, NotExisting)
    ELSE own

\* chat_ctx.add_message(role="system", content=f"Hello, I am {agent_name}...
\* {userdata.summarize()}")
summary_message(self, id) ==
    [id |-> id, type |-> "message", role |-> "system",
     content |-> [agent_name     |-> self.cls,
                  customer_name  |-> summarize.customer_name,
                  customer_phone |-> summarize.customer_phone,
                  skills         |-> summarize.skills,
                  experience     |-> summarize.experience]]

\* BaseAgent.on_enter: the chat_ctx.items given to update_chat_ctx
BaseAgent_on_enter(self) ==
    Append(merge_history(self, chat_ctx[self]), summary_message(self, next_id))

\* whether the class of self overrides on_enter (Phoenix, Solace): the
\* overrides only call session.generate_reply(instructions=...)
overrides_on_enter(self) == self.cls \in {"Phoenix", "Solace"}

\* the on_enter the runtime runs for self: its chat_ctx.items afterwards
on_enter(self) ==
    IF overrides_on_enter(self) THEN chat_ctx[self] ELSE BaseAgent_on_enter(self)

----------------------------------------------------------------------------
(* Spec: the session started by entrypoint *)

Init ==
    /\ customer_name = NoneStr /\ customer_phone = NoneStr
    /\ resume_skills = NoneList /\ resume_experience = NoneList
    /\ prev_agent = NoAgent
    /\ current_agent = start_agent
    /\ chat_ctx = [a \in Instances |-> <<>>]
    /\ next_id = 1
    /\ trace = <<start_agent.cls>>
    /\ pc = "enter"
    /\ ret = NoReturn
    /\ name = "" /\ items = <<>> /\ keep_last_n_messages = DefaultKeepLastN
    /\ keep_system_message = FALSE /\ keep_function_call = FALSE
    /\ new_items = <<>> /\ runs = 0

\* the runtime runs the entry hook of the agent that became active
OnEnter ==
    /\ pc = "enter"
    /\ chat_ctx' = [chat_ctx EXCEPT ![current_agent] = on_enter(current_agent)]
    /\ next_id' = IF overrides_on_enter(current_agent) THEN next_id ELSE next_id + 1
    /\ pc' = "turn"
    /\ UNCHANGED <<userdata_vars, prev_agent, current_agent, trace, ret, call_vars>>

\* the runtime appends a conversation item (a user or assistant message, a
\* function call or its output) to the active agent's chat_ctx
Converse(kind) ==
    /\ pc = "turn"
    /\ next_id <= MaxItemId
    /\ chat_ctx' = [chat_ctx EXCEPT
                       ![current_agent] = Append(@, Item(next_id, kind))]
    /\ next_id' = next_id + 1
    /\ UNCHANGED <<userdata_vars, prev_agent, current_agent, trace, ret, pc,
                   call_vars>>

update_name(v) ==
    /\ pc = "turn"
    /\ "update_name" \in update_tools(current_agent.cls)
    /\ customer_name' = Some(v)
    /\ ret' = [agent |-> NoAgent,
               message |-> <<"Great, your name is now set to ", v, ".">>]
    /\ UNCHANGED <<customer_phone, resume_skills, resume_experience, prev_agent,
                   current_agent, chat_ctx, next_id, trace, pc, call_vars>>

update_phone(v) ==
    /\ pc = "turn"
    /\ "update_phone" \in update_tools(current_agent.cls)
    /\ customer_phone' = Some(v)
    /\ ret' = [agent |-> NoAgent,
               message |-> <<"Got it-your phone number is updated to ", v, ".">>]
    /\ UNCHANGED <<customer_name, resume_skills, resume_experience, prev_agent,
                   current_agent, chat_ctx, next_id, trace, pc, call_vars>>

update_skills(v) ==
    /\ pc = "turn"
    /\ "update_skills" \in update_tools(current_agent.cls)
    /\ resume_skills' = Some(v)
    /\ ret' = [agent |-> NoAgent,
               message |-> <<"Fantastic! Your skills have been updated: ">> \o v
                              \o <<".">>]
    /\ UNCHANGED <<customer_name, customer_phone, resume_experience, prev_agent,
                   current_agent, chat_ctx, next_id, trace, pc, call_vars>>

update_experience(v) ==
    /\ pc = "turn"
    /\ "update_experience" \in update_tools(current_agent.cls)
    /\ resume_experience' = Some(v)
    /\ ret' = [agent |-> NoAgent,
               message |-> <<"Experience recorded: ">> \o v \o <<".">>]
    /\ UNCHANGED <<customer_name, customer_phone, resume_skills, prev_agent,
                   current_agent, chat_ctx, next_id, trace, pc, call_vars>>

\* a handoff tool (to_aria, to_phoenix, to_solace) of the active agent: it
\* returns _transfer_to_agent's result, and the runtime makes the returned
\* agent the current one; a lookup failure leaves the active agent in place
Handoff(nm) ==
    /\ pc = "turn"
    /\ nm \in handoff_tools(current_agent.cls)
    /\ LET r == transfer_to_agent(nm, prev_agent, current_agent)
       IN  /\ prev_agent' = r.prev_agent
           /\ ret' = r.ret
           /\ IF r.raised = ""
              THEN /\ current_agent' = r.ret.agent
                   /\ trace' = Append(trace, r.ret.agent.cls)
                   /\ pc' = "enter"
              ELSE UNCHANGED <<current_agent, trace, pc>>
    /\ UNCHANGED <<userdata_vars, chat_ctx, next_id, call_vars>>

ConversationKinds == {UserMessage, AssistantMessage, FunctionCall,
                      FunctionCallOutput}

Next ==
    \/ OnEnter
    \/ \E kind \in ConversationKinds : Converse(kind)
    \/ \E v \in NameInputs : update_name(v)
    \/ \E v \in PhoneInputs : update_phone(v)
    \/ \E v \in SkillInputs : update_skills(v)
    \/ \E v \in ExperienceInputs : update_experience(v)
    \/ \E nm \in DOMAIN agents : Handoff(nm)

Spec == Init /\ [][Next]_vars

----------------------------------------------------------------------------
(* SpecTransfer: one call of _transfer_to_agent on any session record *)

\* names a caller may pass: the registered ones and two that are not
TransferNames == DOMAIN agents \cup {"atlas", "Phoenix"}

InitTransfer ==
    /\ customer_name \in {NoneStr} \cup {Some(v) : v \in NameInputs}
    /\ customer_phone \in {NoneStr} \cup {Some(v) : v \in PhoneInputs}
    /\ resume_skills \in {NoneList} \cup {Some(v) : v \in SkillInputs}
    /\ resume_experience = NoneList
    /\ prev_agent \in Registered \cup {NoAgent}
    /\ current_agent \in Registered
    /\ chat_ctx = [a \in Instances |-> <<>>]
    /\ next_id = 1
    /\ trace = <<>>
    /\ pc = "call"
    /\ ret = NoReturn
    /\ name \in TransferNames
    /\ items = <<>> /\ keep_last_n_messages = DefaultKeepLastN
    /\ keep_system_message = FALSE /\ keep_function_call = FALSE
    /\ new_items = <<>> /\ runs = 0

TransferCall ==
    /\ pc = "call"
    /\ LET r == transfer_to_agent(name, prev_agent, current_agent)
       IN  /\ prev_agent' = r.prev_agent
           /\ ret' = r.ret
           /\ pc' = IF r.raised = "" THEN "returned" ELSE r.raised
    /\ UNCHANGED <<userdata_vars, current_agent, chat_ctx, next_id, trace,
                   call_vars>>

NextTransfer == TransferCall

SpecTransfer == InitTransfer /\ [][NextTransfer]_vars

----------------------------------------------------------------------------
(* SpecMerge: BaseAgent.on_enter run again and again on Aria, entered from *)
(* Zephyra, with Zephyra's history fixed                                   *)

SourceKinds == {UserMessage, FunctionCall, SystemMessage}

InitMerge ==
    /\ customer_name = NoneStr /\ customer_phone = NoneStr
    /\ resume_skills = NoneList /\ resume_experience = NoneList
    /\ prev_agent = agents["zephyra"]
    /\ current_agent = agents["aria"]
    /\ \E src \in Histories(SourceKinds, MaxSrc) :
       \E own \in {<<>>, <<Item(MaxSrc + 1, UserMessage)>>} :
          chat_ctx = [a \in Instances |->
                         IF a = agents["zephyra"] THEN src
                         ELSE IF a = agents["aria"] THEN own ELSE <<>>]
    /\ next_id = MaxSrc + 2
    /\ trace = <<"Zephyra", "Aria">>
    /\ pc = "enter"
    /\ ret = NoReturn
    /\ name = "" /\ items = <<>> /\ keep_last_n_messages = DefaultKeepLastN
    /\ keep_system_message = FALSE /\ keep_function_call = FALSE
    /\ new_items = <<>> /\ runs = 0

EnterAgain ==
    /\ pc = "enter"
    /\ runs < MaxRuns
    /\ chat_ctx' = [chat_ctx EXCEPT ![current_agent] = on_enter(current_agent)]
    /\ next_id' = next_id + 1
    /\ runs' = runs + 1
    /\ UNCHANGED <<userdata_vars, prev_agent, current_agent, trace, ret, pc,
                   name, items, keep_last_n_messages, keep_system_message,
                   keep_function_call, new_items>>

NextMerge == EnterAgain

SpecMerge == InitMerge /\ [][NextMerge]_vars

----------------------------------------------------------------------------
(* SpecTruncate: one call of _truncate_chat_ctx on any bounded input *)

InitTruncate ==
    /\ customer_name = NoneStr /\ customer_phone = NoneStr
    /\ resume_skills = NoneList /\ resume_experience = NoneList
    /\ prev_agent = NoAgent /\ current_agent = NoAgent
    /\ chat_ctx = <<>> /\ next_id = 1 /\ trace = <<>>
    /\ ret = [agent |-> NoAgent, message |-> <<>>]
    /\ name = "" /\ runs = 0
    /\ pc = "call"
    /\ items \in Histories(ItemKinds, MaxLen)
    /\ keep_last_n_messages \in 0..MaxKeep
    /\ keep_system_message \in BOOLEAN
    /\ keep_function_call \in BOOLEAN
    /\ new_items = <<>>

TruncateCall ==
    /\ pc = "call"
    /\ LET r == truncate_chat_ctx(items, keep_last_n_messages,
                                  keep_system_message, keep_function_call)
       IN  /\ new_items' = r.ret
           /\ items' = r.items
    /\ pc' = "returned"
    /\ UNCHANGED <<userdata_vars, session_vars, name, keep_last_n_messages,
                   keep_system_message, keep_function_call, runs>>

NextTruncate == TruncateCall

SpecTruncate == InitTruncate /\ [][NextTruncate]_vars

----------------------------------------------------------------------------
(* Properties of _truncate_chat_ctx (SpecTruncate) *)

Min(a, b) == IF a <= b THEN a ELSE b

\* an item is eligible unless it is a system message and system messages are
\* not kept, or a function call / output and function calls are not kept
IsEligible(item) ==
    /\ (item.type = "message" /\ item.role = "system") => keep_system_message
    /\ (item.type \in FunctionCallTypes) => keep_function_call

EligibleItems == SelectSeq(items, IsEligible)

NumEligible == Len(EligibleItems)

\* the most recent Min(k, eligible) eligible items, in chronological order
Window ==
    LET n == Min(keep_last_n_messages, NumEligible)
    IN  SubSeq(EligibleItems, NumEligible - n + 1, NumEligible)

\* how many function_call / function_call_output items s starts with
RECURSIVE LeadingCalls(_)
LeadingCalls(s) ==
    IF s # <<>> /\ s[1].type \in FunctionCallTypes
    THEN 1 + LeadingCalls(Tail(s)) ELSE 0

RECURSIVE IsSubsequence(_, _)
IsSubsequence(s, t) ==
    IF s = <<>> THEN TRUE
    ELSE IF t = <<>> THEN FALSE
    ELSE IF s[1] = t[1] THEN IsSubsequence(Tail(s), Tail(t))
    ELSE IsSubsequence(s, Tail(t))

C4_NoDanglingCallFragments ==
    pc = "returned" =>
        \/ new_items = <<>>
        \/ new_items[1].type = "message"

\* a call whose window started with a call and its output, both pruned
C4_Witness ==
    /\ pc = "returned"
    /\ keep_function_call
    /\ keep_last_n_messages >= 1
    /\ LeadingCalls(Window) >= 2
    /\ new_items # <<>>

\* C5: the list _truncate_chat_ctx returns is a subsequence of its input
\* (input items only, none repeated, in the input's order), and the input
\* list is the same after the call.
C5_ChronologicalOrderPreserved ==
    [][ (pc = "call" /\ pc' = "returned") =>
            /\ IsSubsequence(new_items', items)
            /\ items' = items ]_vars

\* a call that returned several items and dropped others
C5_Witness ==
    /\ pc = "returned"
    /\ Len(new_items) >= 2
    /\ Len(new_items) < Len(items)
    /\ new_items[1].id > 1

\* C6: with keep_system_message false no system message is returned, and
\* with keep_function_call false no function_call / function_call_output
\* item is returned.
C6_FilterCorrectness ==
    pc = "returned" =>
        /\ ~keep_system_message =>
              \A i \in 1..Len(new_items) :
                 ~(new_items[i].type = "message" /\ new_items[i].role = "system")
        /\ ~keep_function_call =>
              \A i \in 1..Len(new_items) :
                 new_items[i].type \notin FunctionCallTypes

\* a call with both filters on, on a history holding a system message and a
\* function call, that returned something
C6_Witness ==
    /\ pc = "returned"
    /\ ~keep_system_message /\ ~keep_function_call
    /\ \E i \in 1..Len(items) : items[i].type = "message" /\ items[i].role = "system"
    /\ \E i \in 1..Len(items) : items[i].type \in FunctionCallTypes
    /\ new_items # <<>>

----------------------------------------------------------------------------
(* Properties of _transfer_to_agent (SpecTransfer) *)

\* C1: a transfer to a registered name leaves userdata.prev_agent equal to
\* the agent that was current when the handoff was called, and returns the
\* agent registered under that name.
C1_HandoffRecordsCurrent ==
    [][ (pc = "call" /\ name \in DOMAIN agents /\ pc' # pc) =>
            /\ pc' = "returned"
            /\ prev_agent' = current_agent
            /\ ret'.agent = agents[name] ]_vars

\* Aria, the current agent, has transferred to phoenix
C1_Witness ==
    /\ pc = "returned"
    /\ name = "phoenix"
    /\ current_agent = agents["aria"]
    /\ prev_agent = agents["aria"]
    /\ ret.agent = agents["phoenix"]

\* C2: a transfer to a name that is not a key of userdata.agents fails with
\* a lookup error and leaves userdata.prev_agent and the rest of the session
\* record as they were.
C2_UnregisteredTargetFails ==
    [][ (pc = "call" /\ name \notin DOMAIN agents /\ pc' # pc) =>
            /\ pc' = "KeyError"
            /\ ret' = ret
            /\ UNCHANGED <<userdata_vars, prev_agent, current_agent, chat_ctx>> ]_vars

\* a transfer to an unregistered name has failed in a session that had a
\* previous agent other than the current one
C2_Witness ==
    /\ pc = "KeyError"
    /\ name \notin DOMAIN agents
    /\ prev_agent # NoAgent
    /\ prev_agent # current_agent

----------------------------------------------------------------------------
(* Properties of the on_enter merge (SpecMerge) *)

Ids(s) == {s[i].id : i \in 1..Len(s)}

NoDuplicateIds(s) == \A i, j \in 1..Len(s) : s[i].id = s[j].id => i = j

\* C7: running the on_enter merge again with the same source history adds
\* no carried-over item again: a later run appends the new system message
\* only, and no ChatItem id appears twice in the current agent's history.
C7_DedupIdempotence ==
    [][ runs' = runs + 1 =>
            LET old == chat_ctx[current_agent]
                new == chat_ctx'[current_agent]
            IN  /\ NoDuplicateIds(new)
                /\ runs >= 1 =>
                      /\ Len(new) = Len(old) + 1
                      /\ SubSeq(new, 1, Len(old)) = old
                      /\ new[Len(new)].role = "system" ]_vars

\* the merge has run twice on a source history longer than the window, and
\* the current agent's history holds items carried over from it
C7_Witness ==
    /\ runs = 2
    /\ Len(chat_ctx[prev_agent]) > DefaultKeepLastN
    /\ Cardinality(Ids(chat_ctx[current_agent]) \cap Ids(chat_ctx[prev_agent])) >= 2

----------------------------------------------------------------------------
(* Properties of the session (Spec) *)

\* C8: userdata.prev_agent is unset or is an entry of userdata.agents.
C8_PrevAgentRegistered ==
    prev_agent = NoAgent \/ prev_agent \in Registered

\* two handoffs have happened and a data-update tool has run
C8_Witness ==
    /\ prev_agent = agents["aria"]
    /\ current_agent = agents["phoenix"]
    /\ customer_name # NoneStr

\* C9: whenever a persona becomes active its entry hook merges the previous
\* persona's truncated history (when prev_agent is set) into its own history
\* and appends a system message summarizing the session record; Phoenix and
\* Solace too.
C9_EveryEntryMergesAndSummarizes ==
    [][ (pc = "enter" /\ pc' = "turn") =>
            LET old == chat_ctx[current_agent]
                new == chat_ctx'[current_agent]
                carried == IF prev_agent = NoAgent THEN <<>>
                           ELSE truncate_chat_ctx(chat_ctx[prev_agent],
                                    DefaultKeepLastN, FALSE, TRUE).ret
            IN  /\ Len(new) > Len(old)
                /\ new[Len(new)].type = "message"
                /\ new[Len(new)].role = "system"
                /\ new[Len(new)].content.agent_name = current_agent.cls
                /\ new[Len(new)].content.customer_name = summarize.customer_name
                /\ Ids(carried) \subseteq Ids(new) ]_vars

\* C10: at most two handoffs occur, Zephyra is never active again after the
\* first handoff, and once Phoenix or Solace is active the active persona
\* never changes.
C10_HandoffsAcyclic ==
    /\ Len(trace) <= 3
    /\ trace[Len(trace)] = current_agent.cls
    /\ \A i \in 2..Len(trace) : trace[i] # "Zephyra"
    /\ \A i \in 1..(Len(trace) - 1) : trace[i] \notin {"Phoenix", "Solace"}

\* the longest chain of handoffs: Zephyra to Aria to Phoenix
C10_Witness ==
    /\ trace = <<"Zephyra", "Aria", "Phoenix">>
    /\ pc = "turn"

====
